---- MODULE Spec2Model ----
(***************************************************************************)
(* Model of src/fusion_dashboard.py: the cached loader load_data_from_api  *)
(* and the script main(), which Streamlit runs from top to bottom once per *)
(* page load and once per widget interaction.                              *)
(*                                                                         *)
(* A run of main() is cut at the places where it can end or fault:         *)
(*   Load -> Sidebar -> Metrics -> Tab1 -> Tab2 -> Tab3 -> done            *)
(* (Streamlit executes the body of every tab on every run).                *)
(*                                                                         *)
(* Encoding of values                                                      *)
(*   text   (name, description, year_founded): tuple of 1-char strings     *)
(*   number (employees, funding.amount, commercial_output.mwe): <<n>>      *)
(*   category (fuel_source, general_approach): <<"label">>                 *)
(*   NaN    : what json_normalize puts where a record lacks the key        *)
(*   None   : a JSON null                                                  *)
(* Columns that main() only prints (location, specific_approach,           *)
(* pilot_plant_timeline, milestones_past_12_months) are not carried, and   *)
(* the plotly calls are not modelled.  The clock moves between runs, in    *)
(* steps of half a time-to-live.                                           *)
(***************************************************************************)
EXTENDS Integers, Sequences, FiniteSets, TLC

VARIABLES
    now,                    \* time.monotonic(), in seconds
    cache,                  \* the st.cache_data entry of load_data_from_api(api_url)
    fetchTimes,             \* the times at which requests.get was issued
    pc,                     \* position of the script run
    heap,                   \* the DataFrame objects of the current run
    df,                     \* main: df            (0 is None, else a reference into heap)
    filtered_df,            \* main: filtered_df   (0 is unbound)
    final_df,               \* main: final_df      (0 is unbound)
    display_df,             \* main: display_df    (0 is unbound)
    selected_fuel_sources,  \* main: the value of the first multiselect
    selected_approaches,    \* main: the value of the second multiselect
    metrics,                \* the four st.metric cards, <<>> before they are drawn
    selected_company,       \* main: the value of the selectbox
    company_data,           \* main: <<company_data>>, <<>> when no lookup was made
    founded,                \* the text written after "**Founded:**"
    approach_counts,        \* main: approach_counts
    fuel_counts,            \* main: fuel_counts
    search_term,            \* main: the value of the text input
    min_funding,            \* main: the value of the number input
    fault                   \* the uncaught exception that ended the run, <<>> if none

vars == <<now, cache, fetchTimes, pc, heap, df, filtered_df, final_df, display_df,
          selected_fuel_sources, selected_approaches, metrics, selected_company,
          company_data, founded, approach_counts, fuel_counts, search_term,
          min_funding, fault>>

---------------------------------------------------------------------------
(* Bounds and program constants                                            *)

TTL == 3600

MaxCatalog == 2

MaxTicks == 3

TickSeconds == TTL \div 2

MaxTime == MaxTicks * TickSeconds

---------------------------------------------------------------------------
(* Values                                                                  *)

NaN == <<"float", "nan">>

None == <<"NoneType", "None">>

Omitted == <<"key", "is", "omitted">>

Num(n) == <<n>>

Cat(s) == <<s>>

isna(x) == x = NaN \/ x = None

Min(a, b) == IF a <= b THEN a ELSE b

RECURSIVE SumSeq(_)
SumSeq(s) == IF s = <<>> THEN 0 ELSE Head(s) + SumSeq(Tail(s))

RECURSIVE MaxSeq(_)
MaxSeq(s) == IF Len(s) = 1 THEN Head(s)
             ELSE LET m == MaxSeq(Tail(s)) IN IF Head(s) >= m THEN Head(s) ELSE m

Range(s) == {s[i] : i \in 1..Len(s)}

---------------------------------------------------------------------------
(* The payloads the endpoint can serve                                     *)

Tae == [name |-> <<"T", "a", "e">>,
        description |-> <<"f", "r", "c">>,
        fuel_source |-> Cat("p-B11"),
        general_approach |-> Cat("MCF"),
        employees |-> Num(400),
        year_founded |-> <<"2", "0", "1", "2", "-", "0", "1", "-", "0", "1">>,
        funding |-> [amount |-> Num(2500000)],
        commercial_output |-> [mwe |-> Num(50)]]

Zap == [name |-> <<"Z", "a", "p">>,
        description |-> <<"p", "i", "n", "c", "h">>,
        fuel_source |-> Cat("D-T"),
        general_approach |-> Cat("MIF"),
        employees |-> Num(101),
        year_founded |-> <<"2", "0", "1", "7">>,
        funding |-> [amount |-> Num(1000000)],
        commercial_output |-> [mwe |-> Num(200)]]

\* a second record named "Tae", with a null fuel source, no staff, funding or
\* output figure, and a two-character year
TaeTwo == [name |-> <<"T", "a", "e">>,
           description |-> <<"d", "u", "p">>,
           fuel_source |-> None,
           general_approach |-> Cat("MCF"),
           employees |-> Omitted,
           year_founded |-> <<"9", "9">>,
           funding |-> [amount |-> Omitted],
           commercial_output |-> [mwe |-> Omitted]]

\* a record without a name and without a year, with a null approach
Anon == [name |-> Omitted,
         description |-> <<"a", "n", "o", "n">>,
         fuel_source |-> Cat("D-T"),
         general_approach |-> None,
         employees |-> Num(30),
         year_founded |-> Omitted,
         funding |-> [amount |-> Num(1000000)],
         commercial_output |-> [mwe |-> Num(10)]]

Companies == {Tae, Zap, TaeTwo, Anon}

RECURSIVE SeqsUpTo(_, _)
SeqsUpTo(S, n) ==
    IF n = 0 THEN {<<>>}
    ELSE LET shorter == SeqsUpTo(S, n - 1)
         IN  shorter \cup {Append(s, x) : s \in {t \in shorter : Len(t) = n - 1}, x \in S}

\* what requests.get / raise_for_status / response.json / data['companies'] can do
Responses ==
    {[kind |-> k, companies |-> <<>>] : k \in {"transport", "status", "json", "nokey"}}
    \cup {[kind |-> "ok", companies |-> c] : c \in SeqsUpTo(Companies, MaxCatalog)}

---------------------------------------------------------------------------
(* pandas                                                                  *)

Columns == {"name", "description", "fuel_source", "general_approach", "employees",
            "year_founded", "funding.amount", "commercial_output.mwe"}

cell(x) == IF x = Omitted THEN NaN ELSE x

\* pd.json_normalize: nested objects become dotted columns, a key a record
\* lacks becomes NaN
flatten(c) ==
    [col \in Columns |->
        CASE col = "funding.amount" -> cell(c.funding.amount)
          [] col = "commercial_output.mwe" -> cell(c.commercial_output.mwe)
          [] col = "name" -> cell(c.name)
          [] col = "description" -> cell(c.description)
          [] col = "fuel_source" -> cell(c.fuel_source)
          [] col = "general_approach" -> cell(c.general_approach)
          [] col = "employees" -> cell(c.employees)
          [] OTHER -> cell(c.year_founded)]

json_normalize(companies) == [i \in 1..Len(companies) |-> flatten(companies[i])]

\* a column exists when at least one record of the payload has the key
HasColumn(rows, col) == \E i \in 1..Len(rows) : rows[i][col] # NaN

column(rows, col) == [i \in 1..Len(rows) |-> rows[i][col]]

\* Series.dropna
dropna(s) == SelectSeq(s, LAMBDA x : ~isna(x))

\* the numbers of a numeric Series, NaN skipped (skipna=True)
numbers(s) == LET present == dropna(s) IN [i \in 1..Len(present) |-> present[i][1]]

\* Series.unique: the distinct values in order of first appearance (NaN and None included)
RECURSIVE unique(_)
unique(s) ==
    IF s = <<>> THEN <<>>
    ELSE LET front == unique(SubSeq(s, 1, Len(s) - 1))
             x == s[Len(s)]
         IN  IF x \in Range(front) THEN front ELSE Append(front, x)

\* Series.isin(values) with an empty list read as "no restriction"
isin_or_empty(s, values) == [i \in 1..Len(s) |-> values = {} \/ s[i] \in values]

\* Series.isin(values): NaN is in a list that holds NaN, None in one that holds None
isin(s, values) == [i \in 1..Len(s) |-> s[i] \in values]

\* frame[mask] with the rows kept shifted by one position against the mask
BoolIndexShifted(rows, mask) ==
    LET n == Len(rows)
        keep == SelectSeq([i \in 1..n |-> i], LAMBDA i : mask[IF i = n THEN 1 ELSE i + 1])
    IN  [k \in 1..Len(keep) |-> rows[keep[k]]]

\* frame[mask]: the rows whose mask is True, in the frame's order (a new frame)
BoolIndex(rows, mask) ==
    LET keep == SelectSeq([i \in 1..Len(rows) |-> i], LAMBDA i : mask[i])
    IN  [k \in 1..Len(keep) |-> rows[keep[k]]]

Lower(ch) ==
    CASE ch = "A" -> "a" [] ch = "E" -> "e" [] ch = "I" -> "i" [] ch = "N" -> "n"
      [] ch = "P" -> "p" [] ch = "T" -> "t" [] ch = "Z" -> "z" [] OTHER -> ch

lower(text) == [i \in 1..Len(text) |-> Lower(text[i])]

Contains(text, pat) ==
    \E k \in 0..(Len(text) - Len(pat)) : SubSeq(text, k + 1, k + Len(pat)) = pat

\* Series.str.contains(pat, case=False) for a pattern of plain letters: NaN stays NaN
str_contains(s, pat) ==
    [i \in 1..Len(s) |->
        IF isna(s[i]) THEN [na |-> TRUE, val |-> FALSE]
        ELSE [na |-> FALSE, val |-> Contains(lower(s[i]), lower(pat))]]

\* a | b on the two str.contains results: object | bool raises TypeError inside
\* pandas for a NaN operand, the element becomes NaN and is then filled with False
or_(a, b) == [i \in 1..Len(a) |-> IF a[i].na \/ b[i].na THEN FALSE ELSE a[i].val \/ b[i].val]

and_(a, b) == [i \in 1..Len(a) |-> a[i] /\ b[i]]

\* Series >= threshold: NaN compares False
ge(s, threshold) == [i \in 1..Len(s) |-> ~isna(s[i]) /\ s[i][1] >= threshold]

\* Series == value: nan == nan is False
eq(s, value) == [i \in 1..Len(s) |-> value # NaN /\ s[i] = value]

RECURSIVE sort_desc(_)
\* stable insertion sort of <<value, count>> pairs by descending count
sort_desc(pairs) ==
    IF pairs = <<>> THEN <<>>
    ELSE LET rest == sort_desc(SubSeq(pairs, 1, Len(pairs) - 1))
             p == pairs[Len(pairs)]
             before == SelectSeq(rest, LAMBDA q : q[2] >= p[2])
             after == SelectSeq(rest, LAMBDA q : q[2] < p[2])
         IN  before \o <<p>> \o after

\* Series.value_counts(): dropna=True, descending count, ties in order of appearance
value_counts(s) ==
    LET present == dropna(s)
        vals == unique(present)
        cnt(v) == Cardinality({i \in 1..Len(present) : present[i] = v})
    IN  sort_desc([k \in 1..Len(vals) |-> <<vals[k], cnt(vals[k])>>])

\* Series.sum(): NaN skipped, 0 when nothing is left
sum(s) == SumSeq(numbers(s))

\* int(Series.mean()): the mean of the present values, truncated; NaN when there is none
mean_is_nan(s) == numbers(s) = <<>>

int_mean(s) == SumSeq(numbers(s)) \div Len(numbers(s))

\* Series.max(): NaN when no value is present
max_is_nan(s) == numbers(s) = <<>>

max(s) == MaxSeq(numbers(s))

---------------------------------------------------------------------------
(* Formatting                                                              *)

Digit(d) == CASE d = 0 -> "0" [] d = 1 -> "1" [] d = 2 -> "2" [] d = 3 -> "3" [] d = 4 -> "4"
              [] d = 5 -> "5" [] d = 6 -> "6" [] d = 7 -> "7" [] d = 8 -> "8" [] OTHER -> "9"

RECURSIVE Digits(_)
Digits(n) == IF n < 10 THEN <<Digit(n)>> ELSE Append(Digits(n \div 10), Digit(n % 10))

\* f"${x/1e6:.1f}M"
fmt_millions(x) ==
    IF x = NaN THEN <<"$", "n", "a", "n", "M">>
    ELSE LET tenths == (x[1] + 50000) \div 100000
         IN  <<"$">> \o Digits(tenths \div 10) \o <<".", Digit(tenths % 10), "M">>

\* x[:4] raises TypeError unless x is a str (NaN is a float)
is_str(x) == x # NaN

\* x[:4]
slice4(x) == SubSeq(x, 1, Min(4, Len(x)))

---------------------------------------------------------------------------
(* DataFrame objects                                                       *)

\* a new object holding rows: the heap with it, and the reference to it
alloc(h, rows) == [heap |-> Append(h, rows), ref |-> Len(h) + 1]

\* frame.copy()
copy(h, ref) == alloc(h, h[ref])

\* a name bound to the object itself, where the script takes a copy
alias(h, ref) == [heap |-> h, ref |-> ref]

DisplayColumns == Columns \ {"description"}

\* frame[display_columns]: a new frame with the listed columns
getitem_columns(h, ref) ==
    alloc(h, [i \in 1..Len(h[ref]) |-> [col \in DisplayColumns |-> h[ref][i][col]]])

Renamed(col) ==
    CASE col = "name" -> "Company"
      [] col = "year_founded" -> "Founded"
      [] col = "employees" -> "Employees"
      [] col = "funding.amount" -> "Funding"
      [] col = "general_approach" -> "General Approach"
      [] col = "fuel_source" -> "Fuel Source"
      [] OTHER -> "Output (MWe)"

\* frame.rename(columns=...): a new frame
rename(rows) ==
    [i \in 1..Len(rows) |->
        [label \in {Renamed(col) : col \in DisplayColumns} |->
            rows[i][CHOOSE col \in DisplayColumns : Renamed(col) = label]]]

\* line 261: the funding column rewritten as text, in place
format_funding(rows) ==
    [i \in 1..Len(rows) |->
        [rows[i] EXCEPT !["funding.amount"] = fmt_millions(rows[i]["funding.amount"])]]

\* line 262: the year column cut to its first 4 characters, in place
format_year(rows) ==
    [i \in 1..Len(rows) |->
        [rows[i] EXCEPT !["year_founded"] = slice4(rows[i]["year_founded"])]]

---------------------------------------------------------------------------
(* The filters of main                                                     *)

\* lines 79-82
sidebar_filter(rows, fs, ap) ==
    BoolIndex(rows, and_(isin(column(rows, "fuel_source"), fs),
                         isin(column(rows, "general_approach"), ap)))

\* lines 237-241
search_filter(rows, term) ==
    IF term # <<>>
    THEN BoolIndex(rows, or_(str_contains(column(rows, "name"), term),
                             str_contains(column(rows, "description"), term)))
    ELSE rows

\* lines 243-244
funding_filter(rows, minf) ==
    IF minf > 0
    THEN BoolIndex(rows, ge(column(rows, "funding.amount"), minf * 1000000))
    ELSE rows

---------------------------------------------------------------------------
(* load_data_from_api and its cache                                        *)

NoFrame == [none |-> TRUE, rows |-> <<>>]

\* the body of load_data_from_api: every exception is caught and None returned
load_data_from_api(resp) ==
    IF resp.kind = "ok" THEN [none |-> FALSE, rows |-> json_normalize(resp.companies)]
    ELSE NoFrame

\* a cache that never answers from memory
cache_never_hits(c, t) == FALSE

\* st.cache_data(ttl=3600): the stored entry answers until it is TTL seconds old
cache_hit(c, t) == c.present /\ t < c.stored + TTL

\* line 55 without the test of df.empty
load_failed_none_only(value) == value.none

\* line 55: df is None or df.empty
load_failed(value) == value.none \/ Len(value.rows) = 0

---------------------------------------------------------------------------
(* The script                                                              *)

StartStates == {"start", "refresh", "rerun"}

Terminal == {"failed", "nomatch", "done", "fault"}

SearchTerms == {<<>>, <<"t", "a">>, <<"P", "I", "N">>}

RunVars == <<heap, df, filtered_df, final_df, display_df, selected_fuel_sources,
             selected_approaches, metrics, selected_company, company_data, founded,
             approach_counts, fuel_counts, search_term, min_funding, fault>>

Init ==
    /\ now = 0
    /\ cache = [present |-> FALSE, value |-> NoFrame, stored |-> 0]
    /\ fetchTimes = <<>>
    /\ pc = "start"
    /\ heap = <<>>
    /\ df = 0
    /\ filtered_df = 0
    /\ final_df = 0
    /\ display_df = 0
    /\ selected_fuel_sources = {}
    /\ selected_approaches = {}
    /\ metrics = <<>>
    /\ selected_company = <<>>
    /\ company_data = <<>>
    /\ founded = <<>>
    /\ approach_counts = <<>>
    /\ fuel_counts = <<>>
    /\ search_term = <<>>
    /\ min_funding = 0
    /\ fault = <<>>

\* lines 55-57, given what load_data_from_api returned
Loaded(value) ==
    /\ heap' = IF value.none THEN <<>> ELSE <<value.rows>>
    /\ df' = IF value.none THEN 0 ELSE 1
    /\ pc' = IF load_failed(value) THEN "failed" ELSE "sidebar"
    /\ UNCHANGED <<now, filtered_df, final_df, display_df, selected_fuel_sources,
                   selected_approaches, metrics, selected_company, company_data, founded,
                   approach_counts, fuel_counts, search_term, min_funding, fault>>

\* lines 52-57 when the cache answers: no request is made
LoadHit ==
    /\ pc \in StartStates
    /\ cache_hit(cache, now)
    /\ UNCHANGED <<cache, fetchTimes>>
    /\ Loaded(cache.value)

\* lines 52-57 when the cache does not answer: one request, whose result is stored
LoadMiss ==
    /\ pc \in StartStates
    /\ ~cache_hit(cache, now)
    /\ \E resp \in Responses :
        LET value == load_data_from_api(resp)
        IN  /\ cache' = [present |-> TRUE, value |-> value, stored |-> now]
            /\ fetchTimes' = Append(fetchTimes, now)
            /\ Loaded(value)

\* lines 59-82: the two multiselects and the sidebar filter
Sidebar ==
    /\ pc = "sidebar"
    /\ LET rows == heap[df]
           available_fuel_sources == unique(column(rows, "fuel_source"))
           available_approaches == unique(column(rows, "general_approach"))
       IN  \E fs \in SUBSET Range(available_fuel_sources),
              ap \in SUBSET Range(available_approaches) :
             /\ selected_fuel_sources' = fs
             /\ selected_approaches' = ap
             /\ LET made == alloc(heap, sidebar_filter(rows, fs, ap))
                IN  heap' = made.heap /\ filtered_df' = made.ref
    /\ pc' = "metrics"
    /\ UNCHANGED <<now, cache, fetchTimes, df, final_df, display_df, metrics,
                   selected_company, company_data, founded, approach_counts, fuel_counts,
                   search_term, min_funding, fault>>

\* the exception a numeric column raises in int(frame[col].mean()), <<>> if none
mean_fault(base, rows, col, line) ==
    IF ~HasColumn(base, col) THEN <<"KeyError", line>>
    ELSE IF mean_is_nan(column(rows, col)) THEN <<"ValueError", line>>
    ELSE <<>>

\* lines 85-117: the metric cards, the filter status and the empty-view return
Metrics ==
    /\ pc = "metrics"
    /\ LET base == heap[df]
           rows == heap[filtered_df]
           count == <<Len(rows)>>
           f2 == IF HasColumn(base, "funding.amount") THEN <<>> ELSE <<"KeyError", 92>>
           f3 == mean_fault(base, rows, "employees", 99)
           f4 == mean_fault(base, rows, "commercial_output.mwe", 106)
       IN  IF rows = <<>>
           THEN /\ metrics' = <<0, 0, 0, 0>>
                /\ pc' = "nomatch"
                /\ fault' = <<>>
           ELSE IF f2 # <<>>
           THEN metrics' = count /\ pc' = "fault" /\ fault' = f2
           ELSE IF f3 # <<>>
           THEN /\ metrics' = count \o <<sum(column(rows, "funding.amount"))>>
                /\ pc' = "fault"
                /\ fault' = f3
           ELSE IF f4 # <<>>
           THEN /\ metrics' = count \o <<sum(column(rows, "funding.amount")),
                                          int_mean(column(rows, "employees"))>>
                /\ pc' = "fault"
                /\ fault' = f4
           ELSE /\ metrics' = count \o <<sum(column(rows, "funding.amount")),
                                          int_mean(column(rows, "employees")),
                                          int_mean(column(rows, "commercial_output.mwe"))>>
                /\ pc' = "tab1"
                /\ fault' = <<>>
    /\ UNCHANGED <<now, cache, fetchTimes, heap, df, filtered_df, final_df, display_df,
                   selected_fuel_sources, selected_approaches, selected_company,
                   company_data, founded, approach_counts, fuel_counts, search_term,
                   min_funding>>

\* bool(selected_company): an empty str is falsy, nan is truthy
truthy(x) == x # <<>>

\* lines 122-158: the selectbox, the lookup by name and the detail fields
Tab1 ==
    /\ pc = "tab1"
    /\ LET base == heap[df]
           rows == heap[filtered_df]
       IN  IF ~HasColumn(base, "name")
           THEN /\ pc' = "fault"
                /\ fault' = <<"KeyError", 128>>
                /\ UNCHANGED <<selected_company, company_data, founded>>
           ELSE \E i \in 1..Len(rows) :
                LET choice == rows[i]["name"]
                    found == BoolIndex(rows, eq(column(rows, "name"), choice))
                IN  /\ selected_company' = choice
                    /\ IF ~truthy(choice)
                       THEN /\ pc' = "tab2"
                            /\ fault' = <<>>
                            /\ UNCHANGED <<company_data, founded>>
                       ELSE IF found = <<>>
                       THEN /\ pc' = "fault"
                            /\ fault' = <<"IndexError", 132>>
                            /\ UNCHANGED <<company_data, founded>>
                       ELSE /\ company_data' = <<found[1]>>
                            /\ IF ~HasColumn(base, "year_founded")
                               THEN /\ pc' = "fault"
                                    /\ fault' = <<"KeyError", 139>>
                                    /\ UNCHANGED founded
                               ELSE IF ~is_str(found[1]["year_founded"])
                               THEN /\ pc' = "fault"
                                    /\ fault' = <<"TypeError", 139>>
                                    /\ UNCHANGED founded
                               ELSE /\ pc' = "tab2"
                                    /\ fault' = <<>>
                                    /\ founded' = slice4(found[1]["year_founded"])
    /\ UNCHANGED <<now, cache, fetchTimes, heap, df, filtered_df, final_df, display_df,
                   selected_fuel_sources, selected_approaches, metrics, approach_counts,
                   fuel_counts, search_term, min_funding>>

\* lines 160-215: the two distributions (the chart calls are not modelled)
Tab2 ==
    /\ pc = "tab2"
    /\ approach_counts' = value_counts(column(heap[filtered_df], "general_approach"))
    /\ fuel_counts' = value_counts(column(heap[filtered_df], "fuel_source"))
    /\ pc' = "tab3"
    /\ UNCHANGED <<now, cache, fetchTimes, heap, df, filtered_df, final_df, display_df,
                   selected_fuel_sources, selected_approaches, metrics, selected_company,
                   company_data, founded, search_term, min_funding, fault>>

\* lines 235-276 on the DataFrame objects; fresh tells whether final_df and
\* display_df are new objects (as in the script) or the objects they come from
Tab3FramesBy(h, filtered, term, minf, fresh) ==
    LET c0 == IF fresh THEN copy(h, filtered) ELSE alias(h, filtered)
        rows0 == c0.heap[c0.ref]
        s1 == IF term # <<>> THEN alloc(c0.heap, search_filter(rows0, term)) ELSE c0
        rows1 == s1.heap[s1.ref]
        s2 == IF minf > 0 THEN alloc(s1.heap, funding_filter(rows1, minf)) ELSE s1
        rows2 == s2.heap[s2.ref]
        picked == IF fresh THEN getitem_columns(s2.heap, s2.ref) ELSE alias(s2.heap, s2.ref)
        d0 == IF fresh THEN copy(picked.heap, picked.ref) ELSE picked
        h1 == [d0.heap EXCEPT ![d0.ref] = format_funding(@)]
        h2 == [h1 EXCEPT ![d0.ref] = format_year(@)]
        d1 == alloc(h2, rename(h2[d0.ref]))
    IN  IF rows2 = <<>>
        THEN [heap |-> s2.heap, final |-> s2.ref, display |-> 0, fault |-> <<>>]
        ELSE IF ~HasColumn(h[1], "year_founded")
        THEN [heap |-> s2.heap, final |-> s2.ref, display |-> 0,
              fault |-> <<"KeyError", 260>>]
        ELSE IF \E i \in 1..Len(rows2) : ~is_str(rows2[i]["year_founded"])
        THEN [heap |-> h1, final |-> s2.ref, display |-> d0.ref,
              fault |-> <<"TypeError", 262>>]
        ELSE [heap |-> d1.heap, final |-> s2.ref, display |-> d1.ref, fault |-> <<>>]

\* lines 235-276 with final_df and display_df bound to the frames they are derived from
Tab3FramesInPlace(h, filtered, term, minf) ==
    Tab3FramesBy(h, filtered, term, minf, FALSE)

\* lines 235-276: final_df is a copy of filtered_df, display_df a copy of a selection
Tab3Frames(h, filtered, term, minf) ==
    Tab3FramesBy(h, filtered, term, minf, TRUE)

\* lines 217-278: the search box, the funding threshold and the detail table
Tab3 ==
    /\ pc = "tab3"
    /\ LET funding == column(heap[filtered_df], "funding.amount")
       IN  IF max_is_nan(funding)
           THEN /\ pc' = "fault"
                /\ fault' = <<"ValueError", 230>>
                /\ UNCHANGED <<heap, final_df, display_df, search_term, min_funding>>
           ELSE \E term \in SearchTerms, minf \in 0..(max(funding) \div 1000000) :
                LET r == Tab3Frames(heap, filtered_df, term, minf)
                IN  /\ search_term' = term
                    /\ min_funding' = minf
                    /\ heap' = r.heap
                    /\ final_df' = r.final
                    /\ display_df' = r.display
                    /\ fault' = r.fault
                    /\ pc' = IF r.fault = <<>> THEN "done" ELSE "fault"
    /\ UNCHANGED <<now, cache, fetchTimes, df, filtered_df, selected_fuel_sources,
                   selected_approaches, metrics, selected_company, company_data, founded,
                   approach_counts, fuel_counts>>

\* the page is loaded again, or a widget is touched: the script runs from the top
Rerun ==
    /\ pc \in Terminal
    /\ pc' = IF pc = "failed" THEN "refresh" ELSE "rerun"
    /\ heap' = <<>>
    /\ df' = 0
    /\ filtered_df' = 0
    /\ final_df' = 0
    /\ display_df' = 0
    /\ selected_fuel_sources' = {}
    /\ selected_approaches' = {}
    /\ metrics' = <<>>
    /\ selected_company' = <<>>
    /\ company_data' = <<>>
    /\ founded' = <<>>
    /\ approach_counts' = <<>>
    /\ fuel_counts' = <<>>
    /\ search_term' = <<>>
    /\ min_funding' = 0
    /\ fault' = <<>>
    /\ UNCHANGED <<now, cache, fetchTimes>>

\* time passes between two runs of the script
Tick ==
    /\ pc \in StartStates
    /\ now < MaxTime
    /\ now' = now + TickSeconds
    /\ UNCHANGED <<cache, fetchTimes, pc>>
    /\ UNCHANGED RunVars

Next == LoadHit \/ LoadMiss \/ Sidebar \/ Metrics \/ Tab1 \/ Tab2 \/ Tab3 \/ Rerun \/ Tick

Spec == Init /\ [][Next]_vars

---------------------------------------------------------------------------
(* Properties                                                              *)

InRun == pc \notin StartStates

RECURSIVE IsSubSeq(_, _)
\* v is b with some rows left out, the order kept
IsSubSeq(v, b) ==
    IF v = <<>> THEN TRUE
    ELSE IF b = <<>> THEN FALSE
    ELSE IF Head(v) = Head(b) THEN IsSubSeq(Tail(v), Tail(b))
    ELSE IsSubSeq(v, Tail(b))

AllFuelSources == Range(unique(column(heap[df], "fuel_source")))

AllApproaches == Range(unique(column(heap[df], "general_approach")))

NothingDerived ==
    /\ filtered_df = 0 /\ final_df = 0 /\ display_df = 0
    /\ metrics = <<>> /\ selected_company = <<>> /\ company_data = <<>>
    /\ founded = <<>> /\ approach_counts = <<>> /\ fuel_counts = <<>>
    /\ fault = <<>>

C1_State ==
    /\ (InRun /\ (cache.value.none \/ cache.value.rows = <<>>)) => pc = "failed"
    /\ pc = "failed" => (df = 0 \/ heap[df] = <<>>) /\ NothingDerived

\* C1: a run whose load returned None (transport error, bad status, malformed
\* JSON, missing 'companies' key) or an empty catalog is in the "failed to load"
\* state, has executed no filtering, aggregation, lookup or formatting step and
\* has raised nothing; the only step from there is a new run.
C1_FailedLoadHalts ==
    /\ []C1_State
    /\ [][pc = "failed" => pc' \in {"failed", "refresh"}]_vars

C1_Witness == pc = "failed" /\ cache.value.none /\ fetchTimes # <<>>

\* C2: the view left by the sidebar filter, the search and the funding threshold
\* is the base catalog with rows left out, and applying the same selections,
\* search term and threshold to that view gives the view back.
C2_SubsetAndFixedPoint ==
    final_df # 0 =>
        LET V == heap[final_df]
            again == funding_filter(
                         search_filter(
                             sidebar_filter(V, selected_fuel_sources, selected_approaches),
                             search_term),
                         min_funding)
        IN  IsSubSeq(V, heap[df]) /\ again = V

C2_Witness ==
    /\ pc = "done"
    /\ search_term # <<>>
    /\ min_funding > 0
    /\ selected_fuel_sources # AllFuelSources
    /\ Len(heap[final_df]) = 1
    /\ Len(heap[df]) = 2

\* C3 as stated: with an empty fuel-source (or approach) selection and the other
\* selection matching every record, the sidebar filter yields the full catalog.
C3_EmptySetDisables ==
    (/\ filtered_df # 0
     /\ \/ selected_fuel_sources = {} /\ selected_approaches = AllApproaches
        \/ selected_approaches = {} /\ selected_fuel_sources = AllFuelSources)
    => heap[filtered_df] = heap[df]

\* C3 as amended: an empty fuel-source or approach selection excludes every
\* record (the view is empty and the run ends in the "no companies match"
\* state); the full catalog comes back when both selections hold the whole
\* domain of their column.
C3_EmptySetExcludesAll ==
    filtered_df # 0 =>
        /\ (selected_fuel_sources = {} \/ selected_approaches = {})
               => heap[filtered_df] = <<>> /\ pc \in {"metrics", "nomatch"}
        /\ (selected_fuel_sources = AllFuelSources /\ selected_approaches = AllApproaches)
               => heap[filtered_df] = heap[df]

C3_Witness ==
    /\ pc = "nomatch"
    /\ selected_fuel_sources = {}
    /\ selected_approaches = AllApproaches
    /\ Len(heap[df]) = 2

CountTotal(counts) == SumSeq([k \in 1..Len(counts) |-> counts[k][2]])

\* C4: once the two distributions are computed, the counts of general_approach
\* and the counts of fuel_source each add up to the number of rows of the view.
C4_CountsSumToCount ==
    pc \in {"tab3", "done"} =>
        /\ CountTotal(approach_counts) = Len(heap[filtered_df])
        /\ CountTotal(fuel_counts) = Len(heap[filtered_df])

\* C5: the employee and output means never end the run with an exception; a view
\* without a present value shows 0.
C5_MeansNeverFault ==
    /\ fault # <<>> => fault[2] \notin {99, 106}
    /\ Len(metrics) = 4 /\ mean_is_nan(column(heap[filtered_df], "employees"))
           => metrics[3] = 0
    /\ Len(metrics) = 4 /\ mean_is_nan(column(heap[filtered_df], "commercial_output.mwe"))
           => metrics[4] = 0

\* C6: a run started by reloading the page after a failed load always issues a
\* new request.
C6_RefreshFetchesAgain ==
    [][(pc = "refresh" /\ pc' # "refresh") => Len(fetchTimes') = Len(fetchTimes) + 1]_vars

\* C7: any two requests are at least one time-to-live apart, and a run always
\* works on what the cache holds (None for a stored failure).
C7_OneFetchPerWindow ==
    /\ \A i, j \in 1..Len(fetchTimes) : i < j => fetchTimes[j] - fetchTimes[i] >= TTL
    /\ InRun => cache.present /\ (df = 0 <=> cache.value.none)

C7_Witness ==
    /\ Len(fetchTimes) = 2
    /\ pc = "sidebar"
    /\ now > cache.stored

WellFormedYear(y) == is_str(y) /\ Len(y) >= 4

\* C8: the year shown is the first 4 characters of a well-formed year_founded;
\* for any other value it is a placeholder, not the value itself, and no
\* exception is raised, in the detail view and in the detail table.
C8_YearFormattingTotal ==
    /\ fault # <<>> => fault[2] \notin {139, 262}
    /\ (company_data # <<>> /\ fault = <<>>) =>
           LET y == company_data[1]["year_founded"]
           IN  IF WellFormedYear(y) THEN founded = SubSeq(y, 1, 4) ELSE founded # y
    /\ (pc = "done" /\ display_df # 0) =>
           \A i \in 1..Len(heap[display_df]) :
               LET y == heap[final_df][i]["year_founded"]
                   shown == heap[display_df][i]["Founded"]
               IN  IF WellFormedYear(y) THEN shown = SubSeq(y, 1, 4) ELSE shown # y

C9_State == (InRun /\ df # 0) => heap[df] = cache.value.rows

\* C9: in every run the base table is the catalog the loader returned, and no
\* step of the run (filtering, aggregation, the in-place formatting of the
\* funding and year columns) changes the base table or the sidebar-filtered view.
C9_CatalogUnchanged ==
    /\ []C9_State
    /\ [][(InRun /\ pc' \notin StartStates) =>
            /\ df' = df
            /\ df # 0 => heap'[df] = heap[df]
            /\ filtered_df # 0 => filtered_df' = filtered_df
                                  /\ heap'[filtered_df] = heap[filtered_df]]_vars

C9_Witness ==
    /\ pc = "done"
    /\ display_df # 0
    /\ search_term = <<>>
    /\ min_funding = 0
    /\ heap[final_df] = heap[filtered_df]
    /\ heap[display_df][1]["Funding"] = <<"$", "2", ".", "5", "M">>

\* C10: whenever a company is selected, the lookup by name finds a row of the
\* sidebar-filtered view, and the row shown is the first one with that name.
C10_LookupNeverMisses ==
    (selected_company # <<>> /\ truthy(selected_company)) =>
        /\ fault # <<"IndexError", 132>>
        /\ company_data # <<>>
        /\ \E i \in 1..Len(heap[filtered_df]) :
               /\ heap[filtered_df][i]["name"] = selected_company
               /\ company_data[1] = heap[filtered_df][i]
               /\ \A k \in 1..(i - 1) : heap[filtered_df][k]["name"] # selected_company

====
